---- MODULE Spec2Model ----
(***************************************************************************)
(* Model of monocle/worker_raider.py: the WorkerRaider job queue, the      *)
(* dispatch loop (launch), the visit attempt (try_point) and the worker    *)
(* selector (best_worker).                                                 *)
(*                                                                         *)
(* Scheduling is asyncio's: one coroutine runs at a time and control only  *)
(* changes hands at an await that really suspends.  Every action below is  *)
(* one such uninterrupted run of launch or of one try_point task, or one   *)
(* event of the environment (the wall clock advancing, a worker.visit call *)
(* completing, shutdown, cancellation).                                    *)
(***************************************************************************)
EXTENDS Integers, Sequences, FiniteSets, TLC

\* ---------------------------------------------------------------- bounds
NumForts == 3          \* rows the preload query yields
WorkersNeeded == 2     \* workers_needed, the semaphore's initial value
MaxClock == 1          \* last wall-clock tick the model lets time() reach
TicksPerSecond == 1    \* distinct time() readings inside one second
MaxCount == 2          \* launch stops waking once the counters reach this

FortIds == 1..NumForts
WorkerIds == 1..WorkersNeeded
Slots == 1..WorkersNeeded
Speeds == {2, 5}
VisitResults == {-1, 0, 1}

\* the amounts passed to randomize_point, in units of 0.00001 degree
JitterVisit == 3
JitterRetry == 1

\* A row of the preload query: whether (lat, lon) is inside the bounds,
\* whether the fort has a sighting, and that sighting's fields.
Row(inb, n, lm, upd) == [in_bounds |-> inb, sightings |-> n, last_modified |-> lm, updated |-> upd]
Unseen == Row(TRUE, 0, 0, 0)

\* the tables the query may yield: no fort ever sighted; sighted and unsighted
\* forts mixed; a fort outside the bounds
FortTable1 == [i \in FortIds |-> Unseen]
FortTable2 == [i \in FortIds |-> IF i = 1 THEN Row(TRUE, 1, 1, 1)
                                 ELSE IF i = 2 THEN Unseen ELSE Row(TRUE, 1, 1, 0)]
FortTable3 == [i \in FortIds |-> IF i = 1 THEN Row(FALSE, 0, 0, 0)
                                 ELSE IF i = 2 THEN Row(TRUE, 1, 1, 1) ELSE Unseen]
FortTables == {FortTable1, FortTable2, FortTable3}

NoJob == [id |-> 0, last_modified |-> 0, updated |-> 0]

VARIABLES
    clock,                \* the reading time() returns, in ticks
    forts,                \* the rows of the preload query
    running,              \* overseer.running
    job_queue,            \* PriorityQueue.queue: the heap list of (priority, time, gym)
    preloaded,            \* ids of the forts preload() called add_job for
    coroutine_semaphore,  \* Semaphore._value
    workers,              \* len(WorkerRaider.workers); the workers are 1..workers
    busy,                 \* worker.busy.locked()
    travel_speed,         \* what worker.travel_speed(point) returns now
    speed,                \* worker.speed
    scan_delayed,         \* worker.scan_delayed
    skipped, visits, hash_burn,
    lpc,                  \* where launch() stands
    lidx,                 \* forts the preload loop has iterated over
    ljob,                 \* launch's local `job`
    att                   \* the try_point tasks, one per slot

vars == <<clock, forts, running, job_queue, preloaded, coroutine_semaphore, workers,
          busy, travel_speed, speed, scan_delayed, skipped, visits, hash_burn,
          lpc, lidx, ljob, att>>

\* ------------------------------------------------------------ pure helpers
Min(a, b) == IF a < b THEN a ELSE b

\* dict.get(key, default)
Get(d, k, default) == IF k \in DOMAIN d THEN d[k] ELSE default

\* int(time()) for a clock reading t
IntTime(t) == t \div TicksPerSecond

\* the readings a later time() call of the same run can return
Later(t) == t..Min(t + 1, MaxClock)

\* (priority, time, gym) < (priority, time, gym): Python compares tuples by
\* the first pair of unequal elements; two unequal dicts are not orderable
\* and the comparison raises TypeError ("err").
TupleLt(a, b) ==
    IF a.prio # b.prio THEN (IF a.prio < b.prio THEN "lt" ELSE "ge")
    ELSE IF a.t # b.t THEN (IF a.t < b.t THEN "lt" ELSE "ge")
    ELSE IF a.job = b.job THEN "ge"
    ELSE "err"

Swap(h, i, j) == [h EXCEPT ![i + 1] = h[j + 1], ![j + 1] = h[i + 1]]

\* heapq's siftdown (positions are 0-based as in the source)
RECURSIVE SiftDown(_, _, _)
SiftDown(h, startpos, pos) ==
    IF pos > startpos
    THEN LET parentpos == (pos - 1) \div 2
             c == TupleLt(h[pos + 1], h[parentpos + 1])
         IN  IF c = "err" THEN [heap |-> h, err |-> TRUE]
             ELSE IF c = "lt" THEN SiftDown(Swap(h, pos, parentpos), startpos, parentpos)
             ELSE [heap |-> h, err |-> FALSE]
    ELSE [heap |-> h, err |-> FALSE]

\* heapq's siftup
RECURSIVE SiftUp(_, _, _)
SiftUp(h, startpos, pos) ==
    IF pos < Len(h) \div 2
    THEN LET left == 2 * pos + 1
             c == IF left + 1 < Len(h) THEN TupleLt(h[left + 1], h[left + 2]) ELSE "lt"
         IN  IF c = "err" THEN [heap |-> h, err |-> TRUE]
             ELSE LET childpos == IF c = "lt" THEN left ELSE left + 1
                  IN  SiftUp(Swap(h, childpos, pos), startpos, childpos)
    ELSE SiftDown(h, startpos, pos)

\* heappush as it would be if a failed sift discarded the new item
heappush_Drop(h, item) ==
    LET r == SiftDown(Append(h, item), 0, Len(h))
    IN  IF r.err THEN [heap |-> h, err |-> TRUE] ELSE r

\* heapq.heappush: the item is appended, then sifted; a TypeError of the
\* sift leaves the item in the list
heappush(h, item) == SiftDown(Append(h, item), 0, Len(h))

\* heapq.heappop: the last item replaces the root and is sifted; if the sift
\* raises, the old root is dropped and the call raises
heappop(h) ==
    LET n == Len(h)
        lastelt == h[n]
        rest == SubSeq(h, 1, n - 1)
    IN  IF n = 1 THEN [heap |-> rest, item |-> lastelt, err |-> FALSE]
        ELSE LET r == SiftUp([rest EXCEPT ![1] = lastelt], 0, 0)
             IN  [heap |-> r.heap, item |-> h[1], err |-> r.err]

\* add_job: job_queue.put_nowait((gym.get('updated', gym.get('last_modified', 0)), time(), gym))
QueueKey_LastModified(gym) == Get(gym, "last_modified", 0)
QueueKey(gym) == Get(gym, "updated", Get(gym, "last_modified", 0))
add_job(q, gym, t) == heappush(q, [prio |-> QueueKey(gym), t |-> t, job |-> gym])


\* the scan as it would be without the busy.locked() filter
RECURSIVE IdleFrom_All(_, _, _)
IdleFrom_All(w, n, b) == IF w > n THEN <<>> ELSE <<w>> \o IdleFrom_All(w + 1, n, b)

\* best_worker's scan: gen = (w for w in self.workers if not w.busy.locked())
RECURSIVE IdleFrom(_, _, _)
IdleFrom(w, n, b) ==
    IF w > n THEN <<>>
    ELSE IF b[w] THEN IdleFrom(w + 1, n, b)
    ELSE <<w>> \o IdleFrom(w + 1, n, b)

\* the comparison of the scan turned round
RECURSIVE Fastest_Slowest(_, _, _)
Fastest_Slowest(gen, worker, ts) ==
    IF gen = <<>> THEN worker
    ELSE IF ts[Head(gen)] > ts[worker] THEN Fastest_Slowest(Tail(gen), Head(gen), ts)
    ELSE Fastest_Slowest(Tail(gen), worker, ts)

\* for w in gen: if speed < lowest_speed: lowest_speed = speed; worker = w
RECURSIVE Fastest(_, _, _)
Fastest(gen, worker, ts) ==
    IF gen = <<>> THEN worker
    ELSE IF ts[Head(gen)] < ts[worker] THEN Fastest(Tail(gen), Head(gen), ts)
    ELSE Fastest(Tail(gen), worker, ts)

\* best_worker(point, job, updated, skip_time), up to its first suspension.
\* With overseer.running false the while loop is not entered and the call
\* returns None.  With an idle worker the fastest one is returned.  With no
\* idle worker next(gen) raises StopIteration, `worker` is never bound, and
\* `if worker:` raises UnboundLocalError; the deadline test and the sleep
\* after it are therefore never reached.
best_worker(run, n, b, ts) ==
    LET gen == IdleFrom(1, n, b)
    IN  IF ~run THEN [kind |-> "none", worker |-> 0, lowest_speed |-> 0]
        ELSE IF gen = <<>> THEN [kind |-> "unbound", worker |-> 0, lowest_speed |-> 0]
        ELSE LET w == Fastest(Tail(gen), Head(gen), ts)
             IN  [kind |-> "worker", worker |-> w, lowest_speed |-> ts[w]]

\* asyncio.Semaphore: acquire() waits `while self._value <= 0`, then takes
\* one; release() adds one
sem_locked(v) == v <= 0
sem_acquire(v) == v - 1
sem_release_Twice(v) == v + 2
sem_release(v) == v + 1

\* try_point's test of the first visit result: `if visit_result == -1`
IsBlock_Never(r) == FALSE
IsBlock(r) == r = -1

\* try_point's classification of the final visit result (lines 143-152) and
\* of an exception raised by worker.visit (line 158)
Classify_Truthy(r, raised) ==
    IF raised THEN "exception"
    ELSE IF r # 0 THEN "success" ELSE "nothing_seen"
Classify(r, raised) ==
    IF raised THEN "exception"
    ELSE IF r # 0
         THEN (IF r = -1 THEN "gym_not_found" ELSE "success")
         ELSE "nothing_seen"

\* entering `async with worker.busy`: Lock.acquire() on an unlocked lock
lock_acquire_Skip(b, w) == b
lock_acquire(b, w) == [b EXCEPT ![w] = TRUE]

\* leaving `async with worker.busy`: Lock.release()
lock_release_Keep(b, w) == b
lock_release(b, w) == [b EXCEPT ![w] = FALSE]

\* ------------------------------------------------------------------ state
FreeAtt == [pc |-> "free", job |-> NoJob, updated |-> 0, jitter |-> 0, worker |-> 0,
            visit_result |-> 0, raised |-> FALSE]

Init ==
    /\ clock = 0
    /\ forts \in FortTables
    /\ running = TRUE
    /\ job_queue = <<>>
    /\ preloaded = {}
    /\ coroutine_semaphore = WorkersNeeded
    /\ workers = 0
    /\ busy = [w \in WorkerIds |-> FALSE]
    /\ travel_speed = [w \in WorkerIds |-> 5]
    /\ speed = [w \in WorkerIds |-> 0]
    /\ scan_delayed = [w \in WorkerIds |-> 0]
    /\ skipped = 0
    /\ visits = 0
    /\ hash_burn = 0
    /\ lpc = "preload"
    /\ lidx = 0
    /\ ljob = NoJob
    /\ att = [s \in Slots |-> FreeAtt]

\* launch is suspended at an await (or over): the event loop can run others
LaunchSuspended == lpc \in {"sleep5", "acquire", "sleep1", "done"}

\* the bound on the counters: launch is not woken once they reach MaxCount
BelowCap == skipped + visits + hash_burn < MaxCount

\* LOOP.create_task(self.try_point(job)) into the lowest free task slot
LowestFree(s) == /\ att[s].pc = "free"
                 /\ \A s2 \in Slots : s2 < s => att[s2].pc # "free"
create_task(s, job) == [att EXCEPT ![s] = [FreeAtt EXCEPT !.pc = "start", !.job = job]]

\* --------------------------------------------------------------- preload
\* one iteration of `for fort in forts`; the TypeError of add_job is caught
\* by the except around the loop, which ends the preload
PreloadFort ==
    /\ lpc = "preload"
    /\ LET id == lidx + 1
           fort == forts[id]
           obj == [id |-> id,
                   last_modified |-> IF fort.sightings > 0 THEN fort.last_modified ELSE 0,
                   updated |-> IF fort.sightings > 0 THEN fort.updated ELSE 0]
           r == add_job(job_queue, obj, clock)
       IN  IF ~fort.in_bounds
              THEN /\ lidx' = id
                   /\ lpc' = IF id = NumForts THEN "sleep5" ELSE "preload"
                   /\ UNCHANGED <<job_queue, preloaded>>
              ELSE /\ job_queue' = r.heap
                   /\ preloaded' = preloaded \cup {id}
                   /\ lidx' = id
                   /\ lpc' = IF r.err \/ id = NumForts THEN "sleep5" ELSE "preload"
    /\ UNCHANGED <<clock, forts, running, coroutine_semaphore, workers, busy, travel_speed,
                   speed, scan_delayed, skipped, visits, hash_burn, ljob, att>>

\* after sleep(5): the worker construction loop; a constructor that raises
\* is logged and leaves the list shorter than workers_needed
InitWorkers ==
    /\ lpc = "sleep5"
    /\ \E n \in 0..WorkersNeeded :
          /\ workers' = n
          /\ \E ts \in [WorkerIds -> Speeds] :
                /\ \A w \in WorkerIds : w > n => ts[w] = 5
                /\ travel_speed' = ts
    /\ lpc' = "loop"
    /\ UNCHANGED <<clock, forts, running, job_queue, preloaded, coroutine_semaphore, busy,
                   speed, scan_delayed, skipped, visits, hash_burn,
                   lidx, ljob, att>>

\* ---------------------------------------------------------------- launch
\* one iteration of `while not self.job_queue.empty()`: get(), then the
\* acquire, which returns at once when a permit is free and suspends
\* otherwise; an empty queue or a TypeError of get() leads to sleep(1)
LaunchPop ==
    /\ lpc = "loop"
    /\ IF job_queue = <<>>
       THEN /\ lpc' = "sleep1"
            /\ UNCHANGED <<job_queue, coroutine_semaphore, ljob, att>>
       ELSE LET r == heappop(job_queue)
            IN  /\ job_queue' = r.heap
                /\ IF r.err
                   THEN /\ lpc' = "sleep1"
                        /\ UNCHANGED <<coroutine_semaphore, ljob, att>>
                   ELSE IF ~sem_locked(coroutine_semaphore)
                   THEN /\ coroutine_semaphore' = sem_acquire(coroutine_semaphore)
                        /\ \E s \in Slots : LowestFree(s) /\ att' = create_task(s, r.item.job)
                        /\ lpc' = "loop"
                        /\ UNCHANGED ljob
                   ELSE /\ ljob' = r.item.job
                        /\ lpc' = "acquire"
                        /\ UNCHANGED <<coroutine_semaphore, att>>
    /\ UNCHANGED <<clock, forts, running, preloaded, workers, busy, travel_speed, speed,
                   scan_delayed, skipped, visits, hash_burn, lidx>>

\* the suspended acquire() returns: a permit is taken and the task created
LaunchAcquire ==
    /\ lpc = "acquire"
    /\ ~sem_locked(coroutine_semaphore)
    /\ BelowCap
    /\ coroutine_semaphore' = sem_acquire(coroutine_semaphore)
    /\ \E s \in Slots : LowestFree(s) /\ att' = create_task(s, ljob)
    /\ ljob' = NoJob
    /\ lpc' = "loop"
    /\ UNCHANGED <<clock, forts, running, job_queue, preloaded, workers, busy, travel_speed,
                   speed, scan_delayed, skipped, visits, hash_burn, lidx>>

\* sleep(1) is over
LaunchWake ==
    /\ lpc = "sleep1"
    /\ BelowCap
    /\ lpc' = "loop"
    /\ UNCHANGED <<clock, forts, running, job_queue, preloaded, coroutine_semaphore, workers,
                   busy, travel_speed, speed, scan_delayed, skipped, visits, hash_burn,
                   lidx, ljob, att>>

\* CancelledError delivered at one of launch's awaits: the coroutine ends,
\* and the job it had popped goes with it
CancelLaunch ==
    /\ lpc \in {"sleep5", "acquire", "sleep1"}
    /\ lpc' = "done"
    /\ ljob' = NoJob
    /\ UNCHANGED <<clock, forts, running, job_queue, preloaded, coroutine_semaphore, workers,
                   busy, travel_speed, speed, scan_delayed, skipped, visits, hash_burn,
                   lidx, att>>


\* ------------------------------------------------------------- try_point
\* the finally block: add_job(job), then coroutine_semaphore.release(); a
\* TypeError of add_job leaves the block before the release
Cleanup(s, job, t) ==
    LET r == add_job(job_queue, job, t)
    IN  /\ job_queue' = r.heap
        /\ coroutine_semaphore' = IF r.err THEN coroutine_semaphore
                                  ELSE sem_release(coroutine_semaphore)
        /\ att' = [att EXCEPT ![s] = FreeAtt]

\* the first run of a task: lines 124-135, up to the await of worker.visit
\* (best_worker returns and worker.busy is taken without suspending)
TryPointStart(s) ==
    /\ LaunchSuspended
    /\ att[s].pc = "start"
    /\ LET job == att[s].job
           updated == QueueKey(job)
           bw == best_worker(running, workers, busy, travel_speed)
       IN  CASE bw.kind = "worker" ->
                  /\ speed' = [speed EXCEPT ![bw.worker] = bw.lowest_speed]
                  /\ busy' = lock_acquire(busy, bw.worker)
                  /\ att' = [att EXCEPT ![s] = [@ EXCEPT !.pc = "visit1",
                                                         !.updated = updated,
                                                         !.jitter = JitterVisit,
                                                         !.worker = bw.worker]]
                  /\ UNCHANGED <<clock, job_queue, coroutine_semaphore, skipped>>
             [] bw.kind = "none" ->
                  /\ \E t \in Later(clock) : clock' = t /\ Cleanup(s, job, t)
                  /\ UNCHANGED <<speed, busy, skipped>>
             [] bw.kind = "unbound" ->
                  /\ skipped' = skipped + 1
                  /\ \E t \in Later(clock) : clock' = t /\ Cleanup(s, job, t)
                  /\ UNCHANGED <<speed, busy>>
    /\ UNCHANGED <<forts, running, preloaded, workers, travel_speed, scan_delayed, visits,
                   hash_burn, lpc, lidx, ljob>>

\* the awaited worker.visit completes with a result or an exception
VisitReturn(s) ==
    /\ LaunchSuspended
    /\ att[s].pc \in {"visit1", "visit2"}
    /\ \E r \in VisitResults, exc \in BOOLEAN :
          /\ exc => r = 0
          /\ att' = [att EXCEPT ![s] = [@ EXCEPT
                        !.pc = IF att[s].pc = "visit1" THEN "ret1" ELSE "ret2",
                        !.visit_result = r, !.raised = exc]]
    /\ UNCHANGED <<clock, forts, running, job_queue, preloaded, coroutine_semaphore, workers,
                   busy, travel_speed, speed, scan_delayed, skipped, visits, hash_burn,
                   lpc, lidx, ljob>>

\* the task resumes after a visit: lines 137-163
TryPointAfterVisit(s) ==
    /\ LaunchSuspended
    /\ att[s].pc \in {"ret1", "ret2"}
    /\ LET a == att[s]
       IN  IF ~a.raised /\ a.pc = "ret1" /\ IsBlock(a.visit_result)
           THEN /\ hash_burn' = hash_burn + 1
                /\ att' = [att EXCEPT ![s] = [@ EXCEPT !.pc = "visit2", !.jitter = JitterRetry,
                                                         !.visit_result = 0]]
                /\ UNCHANGED <<clock, job_queue, coroutine_semaphore, busy, scan_delayed,
                               skipped, visits>>
           ELSE LET o == Classify(a.visit_result, a.raised)
                IN  \E t1 \in Later(clock) : \E t2 \in Later(t1) :
                       LET now == IntTime(t1)
                           job == IF o = "success" THEN [a.job EXCEPT !.updated = now]
                                  ELSE a.job
                       IN  /\ scan_delayed' = IF o = "success"
                                              THEN [scan_delayed EXCEPT ![a.worker] = now - a.updated]
                                              ELSE scan_delayed
                           /\ visits' = IF o = "success" THEN visits + 1 ELSE visits
                           /\ skipped' = IF o = "success" THEN skipped ELSE skipped + 1
                           /\ busy' = lock_release(busy, a.worker)
                           /\ clock' = t2
                           /\ Cleanup(s, job, t2)
                           /\ UNCHANGED hash_burn
    /\ UNCHANGED <<forts, running, preloaded, workers, travel_speed, speed, lpc, lidx, ljob>>

\* CancelledError delivered at the await of worker.visit: `async with`
\* releases worker.busy, line 153 re-raises, the finally block runs
CancelTryPoint(s) ==
    /\ LaunchSuspended
    /\ att[s].pc \in {"visit1", "visit2"}
    /\ busy' = lock_release(busy, att[s].worker)
    /\ \E t \in Later(clock) : clock' = t /\ Cleanup(s, att[s].job, t)
    /\ UNCHANGED <<forts, running, preloaded, workers, travel_speed, speed, scan_delayed,
                   skipped, visits, hash_burn, lpc, lidx, ljob>>

\* a task cancelled before its first run: CancelledError is thrown into a
\* coroutine that has not started, so no line of try_point executes
CancelPendingTask(s) ==
    /\ LaunchSuspended
    /\ att[s].pc = "start"
    /\ att' = [att EXCEPT ![s] = FreeAtt]
    /\ UNCHANGED <<clock, forts, running, job_queue, preloaded, coroutine_semaphore, workers,
                   busy, travel_speed, speed, scan_delayed, skipped, visits, hash_burn,
                   lpc, lidx, ljob>>

\* ----------------------------------------------------------- environment
Tick ==
    /\ clock < MaxClock
    /\ clock' = clock + 1
    /\ UNCHANGED <<forts, running, job_queue, preloaded, coroutine_semaphore, workers, busy,
                   travel_speed, speed, scan_delayed, skipped, visits, hash_burn,
                   lpc, lidx, ljob, att>>

\* the overseer clears its running flag
Shutdown ==
    /\ running
    /\ running' = FALSE
    /\ UNCHANGED <<clock, forts, job_queue, preloaded, coroutine_semaphore, workers, busy,
                   travel_speed, speed, scan_delayed, skipped, visits, hash_burn,
                   lpc, lidx, ljob, att>>

Next ==
    \/ PreloadFort
    \/ InitWorkers
    \/ LaunchPop
    \/ LaunchAcquire
    \/ LaunchWake
    \/ CancelLaunch
    \/ \E s \in Slots : TryPointStart(s)
    \/ \E s \in Slots : VisitReturn(s)
    \/ \E s \in Slots : TryPointAfterVisit(s)
    \/ \E s \in Slots : CancelTryPoint(s)
    \/ \E s \in Slots : CancelPendingTask(s)
    \/ Tick
    \/ Shutdown

Spec == Init /\ [][Next]_vars

\* the runs in which no CancelledError is ever delivered
NextUncancelled ==
    \/ PreloadFort
    \/ InitWorkers
    \/ LaunchPop
    \/ LaunchAcquire
    \/ LaunchWake
    \/ \E s \in Slots : TryPointStart(s)
    \/ \E s \in Slots : VisitReturn(s)
    \/ \E s \in Slots : TryPointAfterVisit(s)
    \/ Tick
    \/ Shutdown

SpecUncancelled == Init /\ [][NextUncancelled]_vars

\* the event loop runs every callback that is ready, in the order in which
\* they became ready: launch when its sleep is over or a permit is free, a
\* task when it is created or its visit has returned (a task is not passed
\* over for ever by launch running again and again, hence SF); every
\* worker.visit call returns; time() moves on
Fairness ==
    /\ WF_vars(PreloadFort) /\ WF_vars(InitWorkers)
    /\ WF_vars(LaunchPop) /\ WF_vars(LaunchAcquire) /\ WF_vars(LaunchWake)
    /\ \A s \in Slots : /\ SF_vars(TryPointStart(s))
                        /\ SF_vars(VisitReturn(s))
                        /\ SF_vars(TryPointAfterVisit(s))
    /\ WF_vars(Tick)

\* the liveness properties are checked for the tables with sighted forts
InitFair == Init /\ forts \in {FortTable2, FortTable3}

SpecFair == InitFair /\ [][NextUncancelled]_vars /\ Fairness

TypeOK ==
    /\ clock \in 0..MaxClock
    /\ coroutine_semaphore \in Int
    /\ workers \in 0..WorkersNeeded


\* ================================================================ claims
\* where a job is
InQ(q, id) == Cardinality({i \in 1..Len(q) : q[i].job.id = id})
InQueue(id) == InQ(job_queue, id)
Owned(id) == Cardinality({s \in Slots : att[s].pc # "free" /\ att[s].job.id = id})
HeldByLaunch(id) == IF lpc = "acquire" /\ ljob.id = id THEN 1 ELSE 0
InFlight == Cardinality({s \in Slots : att[s].pc # "free"})
HeldPermits == WorkersNeeded - coroutine_semaphore

\* slot s ends its attempt in this step by running code of try_point
Ends(s) == /\ att'[s].pc = "free"
           /\ TryPointStart(s) \/ TryPointAfterVisit(s) \/ CancelTryPoint(s)

\* C1: every preloaded job is in exactly one of two places, job_queue or a
\* try_point attempt, in every reachable state.
C1_TwoPlaces == \A id \in preloaded : InQueue(id) + Owned(id) = 1

\* C2: every try_point attempt that ends by one of its branches (success,
\* nothing observed, target not found, unexpected failure, no worker
\* available, and cancellation at an await) inserts exactly one entry, for
\* its own job, into job_queue; every pop that hands a job on removes
\* exactly one entry, so a pop followed by its attempt leaves the size as it
\* was.
C2_Requeue ==
    /\ \A s \in Slots : Ends(s) =>
          /\ Len(job_queue') = Len(job_queue) + 1
          /\ InQ(job_queue', att[s].job.id) = InQ(job_queue, att[s].job.id) + 1
    /\ \A s \in Slots : att[s].pc = "free" /\ att'[s].pc = "start" =>
          /\ InQ(job_queue', att'[s].job.id) = 0
          /\ lpc = "loop" => Len(job_queue') = Len(job_queue) - 1
C2_RequeuedOnce == [][C2_Requeue]_vars

\* one attempt has ended in success, one was skipped, and both jobs are back
C2_Witness ==
    /\ skipped >= 1 /\ visits >= 1
    /\ InFlight = 0
    /\ lpc = "sleep1"
    /\ Cardinality(preloaded) = 2
    /\ Len(job_queue) = 2

\* C3: the permits held never exceed workers_needed, no more attempts are
\* in flight than permits are held, and the semaphore's value stays within
\* 0..workers_needed.
C3_PermitBound ==
    /\ coroutine_semaphore >= 0
    /\ coroutine_semaphore <= WorkersNeeded
    /\ HeldPermits <= WorkersNeeded
    /\ InFlight <= HeldPermits

\* every permit is held by an attempt in flight
C3_Witness == coroutine_semaphore = 0 /\ InFlight = WorkersNeeded

\* C4: each attempt releases its permit on every way of ending, so with no
\* attempt in flight (and launch holding no job) the value is workers_needed.
C4_AllReleased == InFlight = 0 => coroutine_semaphore = WorkersNeeded

\* C5: a worker's busy guard is held by at most one attempt, a guard is
\* locked exactly when an attempt holds it, and the worker an attempt gets
\* from best_worker was not locked at the scan.
Holders(w) == {s \in Slots : att[s].pc \in {"visit1", "ret1", "visit2", "ret2"} /\ att[s].worker = w}
C5_Mutex == \A w \in WorkerIds :
    /\ Cardinality(Holders(w)) <= 1
    /\ busy[w] <=> Holders(w) # {}
C5_PickIdle == \A s \in Slots :
    att[s].pc = "start" /\ att'[s].pc = "visit1" =>
        /\ ~busy[att'[s].worker]
        /\ busy'[att'[s].worker]
C5_BusyGuard == [](C5_Mutex) /\ [][C5_PickIdle]_vars

\* two attempts are inside worker.visit, each on its own worker
C5_Witness ==
    /\ att[1].pc = "visit1" /\ att[2].pc = "visit1"
    /\ att[1].worker # att[2].worker
    /\ busy[1] /\ busy[2]


\* C6: each pop returns the job whose (priority, sequence) key is smallest
\* among the entries of job_queue (the earlier of two equal priorities
\* first), and every push inserts its entry without failing.
KeyLe(a, b) == a.prio < b.prio \/ (a.prio = b.prio /\ a.t <= b.t)
Handed(job) ==
    \/ \E s \in Slots : att[s].pc = "free" /\ att'[s].pc = "start" /\ att'[s].job = job
    \/ lpc' = "acquire" /\ ljob' = job
C6_PopMin ==
    lpc = "loop" /\ Len(job_queue') < Len(job_queue) =>
        \E i \in 1..Len(job_queue) :
            /\ \A k \in 1..Len(job_queue) : KeyLe(job_queue[i], job_queue[k])
            /\ Handed(job_queue[i].job)
C6_PushSucceeds ==
    Len(job_queue') > Len(job_queue) =>
        IF lpc = "preload" THEN lpc' = "preload" \/ lidx' = NumForts
        ELSE coroutine_semaphore' = coroutine_semaphore + 1
C6_QueueOrder == [][C6_PopMin /\ C6_PushSucceeds]_vars

\* C7: the worker best_worker returns was idle at the scan, no worker idle
\* at the scan has a smaller travel_speed, and its speed attribute is set to
\* that travel_speed.
C7_Pick == \A s \in Slots :
    att[s].pc = "start" /\ att'[s].pc = "visit1" =>
        LET w == att'[s].worker
        IN  /\ w \in 1..workers
            /\ ~busy[w]
            /\ \A v \in 1..workers : ~busy[v] => travel_speed[w] <= travel_speed[v]
            /\ speed'[w] = travel_speed[w]
C7_FastestIdle == [][C7_Pick]_vars

\* of two idle workers with estimates 5 and 2 the second was taken
C7_Witness ==
    /\ workers = 2
    /\ travel_speed[1] = 5 /\ travel_speed[2] = 2
    /\ att[1].pc = "visit1" /\ att[1].worker = 2
    /\ att[2].pc = "free"
    /\ speed[1] = 0 /\ speed[2] = 2
    /\ ~busy[1]

\* C8: a best_worker call made while the system runs and no worker is idle
\* does not fail: the attempt is not counted as skipped.
NoIdle == \A w \in 1..workers : busy[w]
C8_WaitsForWorker ==
    [][\A s \in Slots : running /\ NoIdle /\ TryPointStart(s) => skipped' = skipped]_vars

\* C9: a first visit result of -1 leads to exactly one more visit, at a
\* point jittered by the retry amount, and to one increment of hash_burn; a
\* second visit is never followed by a third; a second result of -1 counts
\* the attempt as skipped, once, and the job goes back with its updated
\* field as it was.
Requeued(s) == \E i \in 1..Len(job_queue') : job_queue'[i].job.id = att[s].job.id
RequeuedJob(s) == (CHOOSE e \in {job_queue'[i] : i \in 1..Len(job_queue')} :
                      e.job.id = att[s].job.id).job
C9_Step == \A s \in Slots :
    /\ att[s].pc = "ret1" /\ ~att[s].raised /\ att[s].visit_result = -1 /\ att'[s] # att[s] =>
          /\ att'[s].pc = "visit2"
          /\ att'[s].jitter = JitterRetry
          /\ att'[s].job = att[s].job /\ att'[s].worker = att[s].worker
          /\ hash_burn' = hash_burn + 1
          /\ skipped' = skipped /\ visits' = visits
    /\ att[s].pc = "ret2" /\ att'[s] # att[s] =>
          /\ att'[s].pc = "free"
          /\ hash_burn' = hash_burn
    /\ att[s].pc = "ret2" /\ ~att[s].raised /\ att[s].visit_result = -1 /\ att'[s] # att[s] =>
          /\ skipped' = skipped + 1
          /\ visits' = visits
          /\ Requeued(s)
          /\ RequeuedJob(s) = att[s].job
    /\ att[s].pc \in {"visit1", "ret1"} => att[s].jitter = JitterVisit
Final(s) == \/ att[s].pc = "ret2"
            \/ att[s].pc = "ret1" /\ att[s].visit_result # -1
C10_Step == \A s \in Slots :
    /\ Final(s) /\ ~att[s].raised /\ att[s].visit_result \notin {0, -1}
    /\ att'[s] # att[s]
    => /\ visits' = visits + 1
       /\ skipped' = skipped
       /\ hash_burn' = hash_burn
       /\ \E t \in clock..clock' : \E i \in 1..Len(job_queue') :
             LET now == IntTime(t)
                 e == job_queue'[i]
             IN  /\ e.job = [att[s].job EXCEPT !.updated = now]
                 /\ e.prio = now
                 /\ scan_delayed'[att[s].worker] = now - att[s].job.updated
C10_Success == [][C10_Step]_vars

\* a fort never sighted before has been visited in second 1
C10_Witness ==
    /\ forts = FortTable1
    /\ visits = 1
    /\ \E i \in 1..Len(job_queue) : job_queue[i].prio = 1 /\ job_queue[i].job.updated = 1
    /\ \E w \in WorkerIds : scan_delayed[w] = 1

\* C11: once launch is cancelled it stays ended and creates no further
\* task; every attempt that ends after that, and every attempt that is
\* cancelled itself, puts its job back exactly once, releases its permit
\* exactly once and leaves its worker's busy guard unlocked.
CleanedUp(s) ==
    /\ Len(job_queue') = Len(job_queue) + 1
    /\ InQ(job_queue', att[s].job.id) = InQ(job_queue, att[s].job.id) + 1
    /\ coroutine_semaphore' = coroutine_semaphore + 1
    /\ att[s].worker # 0 => ~busy'[att[s].worker]
C11_Step ==
    /\ lpc = "done" =>
          /\ lpc' = "done"
          /\ \A s \in Slots : att[s].pc = "free" => att'[s].pc = "free"
    /\ \A s \in Slots :
          lpc = "done" /\ att[s].pc # "free" /\ att'[s].pc = "free" => CleanedUp(s)
    /\ \A s \in Slots : CancelTryPoint(s) \/ CancelPendingTask(s) => CleanedUp(s)
C11_CleanupAfterCancel == [][C11_Step]_vars

\* C12: in a run without cancellation launch never ends, and no outcome of
\* an attempt blocks it: while launch waits for a permit, either a permit is
\* free or an attempt is in flight that will release one.
C12_LoopNotBlocked ==
    /\ lpc # "done"
    /\ lpc = "acquire" => coroutine_semaphore > 0 \/ InFlight > 0

\* C13: under fair scheduling, with every visit returning and no
\* cancellation, a job that is in job_queue is eventually owned by a
\* try_point attempt again (as long as the counters are below their cap).
C13_Revisited ==
    \A id \in FortIds : (InQueue(id) > 0) ~> (Owned(id) > 0 \/ ~BelowCap)

\* C14: an attempt to which best_worker returns None ends in that step
\* without a visit and without taking a busy guard; skipped, visits,
\* hash_burn and the job's updated field stay as they were, the job is
\* re-enqueued and the permit is released, and nothing else changes.
ReturnsNone(s) ==
    /\ TryPointStart(s)
    /\ best_worker(running, workers, busy, travel_speed).kind = "none"
C14_Frame(s) ==
    /\ att'[s].pc = "free"
    /\ busy' = busy /\ speed' = speed /\ scan_delayed' = scan_delayed
    /\ skipped' = skipped /\ visits' = visits /\ hash_burn' = hash_burn
    /\ \A s2 \in Slots : s2 # s => att'[s2] = att[s2]
    /\ Len(job_queue') = Len(job_queue) + 1
    /\ Requeued(s) /\ RequeuedJob(s) = att[s].job
C14_Step == \A s \in Slots :
    ReturnsNone(s) => C14_Frame(s) /\ coroutine_semaphore' = coroutine_semaphore + 1
C14_NoWorker == [][C14_Step]_vars

\* C15: the priority of every entry add_job has pushed is the job's updated
\* value when that is set (not 0), and the job's last_modified otherwise.
C15_KeyedByLastModified ==
    \A i \in 1..Len(job_queue) :
        LET e == job_queue[i]
        IN  e.prio = IF e.job.updated # 0 THEN e.job.updated ELSE e.job.last_modified

\* C16: an attempt that ends in nothing observed, target not found or an
\* unexpected failure (of best_worker or of worker.visit) adds exactly one
\* to skipped, leaves visits, the job's updated field and every worker's
\* scan_delayed as they were, and re-enqueues the job under the priority it
\* was queued with before; no attempt that ends adds to both skipped and
\* visits, or more than one to either.
SkipOutcome(s) ==
    \/ /\ TryPointStart(s)
       /\ best_worker(running, workers, busy, travel_speed).kind = "unbound"
    \/ /\ TryPointAfterVisit(s)
       /\ Final(s)
       /\ att[s].raised \/ att[s].visit_result \in {0, -1}
C16_Step == \A s \in Slots :
    /\ SkipOutcome(s) =>
          /\ att'[s].pc = "free"
          /\ skipped' = skipped + 1
          /\ visits' = visits
          /\ scan_delayed' = scan_delayed
          /\ \E i \in 1..Len(job_queue') :
                /\ job_queue'[i].job = att[s].job
                /\ job_queue'[i].prio = QueueKey(att[s].job)
          /\ InQ(job_queue', att[s].job.id) = 1
    /\ Ends(s) =>
          /\ skipped' \in {skipped, skipped + 1}
          /\ visits' \in {visits, visits + 1}
          /\ (skipped' - skipped) + (visits' - visits) <= 1
C16_KeyAsPushed == \A i \in 1..Len(job_queue) : job_queue[i].prio = QueueKey(job_queue[i].job)
C16_Skipped == [](C16_KeyAsPushed) /\ [][C16_Step]_vars

\* the attempt on fort 2 was retried and then skipped: the fort is back
\* under priority 1 while the attempt on fort 3 is still at its first visit
C16_Witness ==
    /\ forts = FortTable3 /\ running /\ workers = WorkersNeeded
    /\ skipped = 1 /\ visits = 0 /\ hash_burn = 1
    /\ Len(job_queue) = 1
    /\ job_queue[1].job.id = 2 /\ job_queue[1].job.updated = 1 /\ job_queue[1].prio = 1
    /\ \E s \in Slots : att[s].pc = "visit1" /\ att[s].job.id = 3

\* C17: with every visit returning and time advancing, launch, once it
\* is blocked on the semaphore, is eventually unblocked by an attempt that
\* completes its cleanup (as long as the counters are below their cap).
C17_Unblocked == (lpc = "acquire") ~> (lpc # "acquire" \/ ~BelowCap)

\* C18: no two attempts in flight are assigned the same worker; the step in
\* which best_worker returns a worker is the step that locks this worker's
\* busy guard, the guard was free, no other attempt moves in that step, and
\* so no attempt ever has a worker without holding its guard.
C18_Distinct ==
    /\ \A s1, s2 \in Slots :
          s1 # s2 /\ att[s1].worker # 0 /\ att[s2].worker # 0
             => att[s1].worker # att[s2].worker
    /\ \A s \in Slots : att[s].worker # 0 => busy[att[s].worker]
C18_Select == \A s \in Slots :
    att[s].worker = 0 /\ att'[s].worker # 0 =>
        LET w == att'[s].worker
        IN  /\ TryPointStart(s)
            /\ ~busy[w] /\ busy'[w]
            /\ att'[s].pc = "visit1"
            /\ \A s2 \in Slots : s2 # s => att'[s2] = att[s2] /\ att[s2].worker # w
C18_NoSharedWorker == [](C18_Distinct) /\ [][C18_Select]_vars

\* the second attempt has just been given the only worker still idle,
\* while the first is inside its visit on the other one
C18_Witness ==
    /\ workers = WorkersNeeded
    /\ att[1].pc = "ret1" /\ att[1].worker = 2
    /\ att[2].pc = "visit1" /\ att[2].worker = 1
    /\ travel_speed[1] = 2 /\ travel_speed[2] = 2

\* C19: when as many workers were created as workers_needed, fewer busy
\* guards are locked than permits are held while an attempt is still in
\* worker selection, so some worker is idle then; the first step of an
\* attempt made while the system runs therefore gets a worker, and the
\* path of best_worker on which no worker is idle is not taken.
Locked == {w \in WorkerIds : busy[w]}
Selecting == \E s \in Slots : att[s].pc = "start"
C19_Idle ==
    workers = WorkersNeeded /\ Selecting =>
        /\ Cardinality(Locked) < HeldPermits
        /\ \E w \in 1..workers : ~busy[w]
C19_Scan == \A s \in Slots :
    workers = WorkersNeeded /\ running /\ TryPointStart(s) =>
        /\ best_worker(running, workers, busy, travel_speed).kind = "worker"
        /\ att'[s].pc = "visit1"
        /\ skipped' = skipped
C19_AlwaysIdle == [](C19_Idle) /\ [][C19_Scan]_vars

\* every worker is busy, every permit is held, and launch waits with the
\* next job: no attempt is scanning, and none was skipped
C19_Witness ==
    /\ workers = WorkersNeeded /\ running
    /\ \A w \in WorkerIds : busy[w]
    /\ \A s \in Slots : att[s].pc = "visit1"
    /\ lpc = "acquire" /\ coroutine_semaphore = 0
    /\ skipped = 0

\* C20: in a run without cancellation every preloaded job is in exactly one
\* of three places (job_queue, launch's local while it waits for a permit,
\* one attempt in flight), the three counts add up to the number of jobs
\* preloaded, and as many attempts are in flight as permits are held.
C20_ThreePlaces ==
    /\ \A id \in preloaded : InQueue(id) + HeldByLaunch(id) + Owned(id) = 1
    /\ Len(job_queue) + (IF lpc = "acquire" THEN 1 ELSE 0) + InFlight = Cardinality(preloaded)
    /\ InFlight = HeldPermits

====
